---- MODULE Spec2Model ----
(***************************************************************************)
(* Seat inventory and waiting list of the Train Reservation System.        *)
(*                                                                         *)
(* Two front ends work on one SQLite database (database.py, DB_PATH):      *)
(* the HTTP server (server.py) and the terminal application                *)
(* (terminal_app.py).  Each keeps its own in-memory linked list of train   *)
(* records and its own dictionary of waiting queues.                       *)
(*                                                                         *)
(* One action models one handler from its first statement to its commit.   *)
(* The passenger fields (name, age, gender, phone) are one opaque value,   *)
(* pax.  Train metadata other than the seat counters is left out; a train  *)
(* number is identified with the train id.  passenger_cache (server.py:29) *)
(* is written but never read and is left out.                              *)
(***************************************************************************)
EXTENDS Integers, Sequences, FiniteSets, TLC

\* ---------------------------------------------------------------- bounds
MaxTrains   == 1    \* trains ever created (AUTOINCREMENT ids 1..MaxTrains)
MaxSeats    == 2    \* largest total_seats an admin enters
MaxBookings == 3    \* rows of the bookings table
MaxWait     == 2    \* rows ever inserted into waiting_list
MaxRows     == 4    \* rows ever inserted into both tables together
MaxStarts   == 1    \* process starts after the first
MaxAdjust   == 1    \* successful changes of total_seats
MaxCollisions == 1  \* times generate_pnr returns a code already in use
MaxCalls    == 3    \* requests handled while the two processes interleave
MaxCrashes  == 1    \* times the server process dies inside a request
MaxItems    == 3    \* different items put into a Queue
MaxEnqueues == 4    \* enqueue calls on a Queue

\* ---------------------------------------------------------------- principals
\* User 1 is the administrator init_database inserts.  Users 2 and 3 are
\* passengers: user 2 books through the HTTP server, user 3 through the
\* terminal, and either may ask either front end to cancel.  Each books for
\* one passenger payload of their own.
Admin        == 1
HttpUser     == Admin + 1
TerminalUser == Admin + 2
Users        == {Admin, HttpUser, TerminalUser}
Passengers   == {HttpUser, TerminalUser}
PaxOf(u)     == 10 + u
SeatInputs == 0..MaxSeats

role(u) == IF u = Admin THEN "admin" ELSE "passenger"

VARIABLES
  trains,              \* table trains: id -> [total_seats, available_seats]
  train_seq,           \* AUTOINCREMENT counter of trains
  bookings,            \* table bookings: sequence of rows, the index is the pnr
  waiting_list,        \* table waiting_list: set of rows
  wl_seq,              \* AUTOINCREMENT counter of waiting_list
  trains_linked_list,  \* server.py: LinkedList of train records
  waiting_queues,      \* server.py: train_id -> Queue
  t_running,           \* terminal_app.py: the process is alive
  t_trains_list,       \* terminal_app.py: self.trains_list
  t_waiting_queues,    \* terminal_app.py: self.waiting_queues
  s_call,              \* server.py: the request being handled, after its SELECT
  t_call,              \* terminal_app.py: the menu entry being run, after its SELECT
  calls,               \* requests that were handled as two steps
  crashes,             \* times the server process died inside a request
  starts,              \* process starts so far, after the first
  adjusts,             \* changes of total_seats so far
  collisions,          \* pnr collisions so far
  last                 \* the last call and what it returned

durable  == <<trains, train_seq, bookings, waiting_list, wl_seq>>
s_mirror == <<trains_linked_list, waiting_queues>>
budget   == <<starts, adjusts, collisions>>
t_mirror == <<t_running, t_trains_list, t_waiting_queues>>
inflight == <<s_call, t_call, calls, crashes>>
vars     == <<trains, train_seq, bookings, waiting_list, wl_seq,
              trains_linked_list, waiting_queues,
              t_running, t_trains_list, t_waiting_queues,
              s_call, t_call, calls, crashes, starts, adjusts, collisions,
              last>>

\* ---------------------------------------------------------------- data_structures.py
\* LinkedList: a sequence of train records [id, total_seats, available_seats]
insert_at_end(list, data) == Append(list, data)

\* index of the first node whose id is key, 0 for None
search(list, key) ==
  IF \E i \in 1..Len(list) : list[i].id = key
  THEN CHOOSE i \in 1..Len(list) :
         /\ list[i].id = key
         /\ \A j \in 1..(i - 1) : list[j].id # key
  ELSE 0

delete_by_value(list, key) ==
  LET i == search(list, key) IN
  IF i = 0 THEN list
  ELSE SubSeq(list, 1, i - 1) \o SubSeq(list, i + 1, Len(list))

update(list, key, new_data) ==
  LET i == search(list, key) IN
  IF i = 0 THEN list ELSE [list EXCEPT ![i] = new_data]

\* Queue: a sequence of items
enqueue(q, item) == Append(q, item)
is_empty(q)      == Len(q) = 0
size(q)          == Len(q)
dequeue_rest(q)  == IF is_empty(q) THEN q ELSE Tail(q)

\* what dequeue and peek return, 0 for None; the variant pops the last item
dequeue_last(q)  == IF is_empty(q) THEN 0 ELSE q[Len(q)]
dequeue(q)       == IF is_empty(q) THEN 0 ELSE Head(q)
peek(q)          == IF is_empty(q) THEN 0 ELSE Head(q)

\* ---------------------------------------------------------------- rows
NoValue == 0   \* a key the dictionary does not have / a column that is NULL

TrainDict(id, total, avail) ==
  [id |-> id, total_seats |-> total, available_seats |-> avail]

BookingRow(pnr, u, tid, pax, seat, status) ==
  [pnr |-> pnr, user_id |-> u, train_id |-> tid, pax |-> pax,
   seat_number |-> seat, booking_status |-> status]

WaitRow(id, tid, u, pax, position) ==
  [id |-> id, train_id |-> tid, user_id |-> u, pax |-> pax, position |-> position]

\* rows of the waiting_list table of one train
WaitRowsOf(tid) == { w \in waiting_list : w.train_id = tid }

\* confirmed bookings of one train, as pnrs
ConfirmedOf(tid) ==
  { p \in 1..Len(bookings) :
      bookings[p].train_id = tid /\ bookings[p].booking_status = "confirmed" }

\* if booking['booking_status'] == 'cancelled'; the variant never finds a
\* booking cancelled
AlreadyCancelledIgnored(booking) == FALSE
AlreadyCancelled(booking) == booking.booking_status = "cancelled"

\* if booking['user_id'] != current_user['user_id'] and
\* current_user['role'] != 'admin'; the variant lets every caller through
NotOwnerNorAdminIgnored(booking, u) == FALSE
NotOwnerNorAdmin(booking, u) == booking.user_id # u /\ role(u) # "admin"

\* no request is between its SELECT and its writes
NoCall == [op |-> "none"]

\* SELECT * FROM trains WHERE id = ?, fetchone(): the row, or a row without
\* id for None
SelectTrain(tid) ==
  IF tid \in DOMAIN trains THEN trains[tid] ELSE TrainDict(NoValue, 0, 0)

\* SELECT * FROM bookings WHERE pnr = ?, fetchone(): the row, or a row
\* without user for None
SelectBooking(pnr) ==
  IF pnr \in 1..Len(bookings) THEN bookings[pnr]
  ELSE BookingRow(NoValue, NoValue, 0, 0, 0, "none")

\* SELECT * FROM bookings WHERE pnr = ? AND user_id = ?
SelectOwnBooking(pnr, u) ==
  IF pnr \in 1..Len(bookings) /\ bookings[pnr].user_id = u THEN bookings[pnr]
  ELSE BookingRow(NoValue, NoValue, 0, 0, 0, "none")

\* the statement below, moving total_seats with available_seats
AddAvailableAndTotal(tid, d) ==
  IF tid \in DOMAIN trains
  THEN [trains EXCEPT ![tid].available_seats = @ + d,
                      ![tid].total_seats = @ + d]
  ELSE trains

\* UPDATE trains SET available_seats = available_seats + d WHERE id = ?
AddAvailable(tid, d) ==
  IF tid \in DOMAIN trains
  THEN [trains EXCEPT ![tid].available_seats = @ + d]
  ELSE trains

\* DELETE FROM trains WHERE id = ?: bookings.train_id REFERENCES trains (id)
\* has no ON DELETE action and no connection sets PRAGMA foreign_keys, so the
\* bookings of the train stay; the variant deletes them with the train
BookingsCascade(tid) ==
  SelectSeq(bookings, LAMBDA b : b.train_id # tid)
BookingsAfterDelete(tid) == bookings

\* the model's bounds on the two tables
CanInsertBooking == Len(bookings) < MaxBookings /\ Len(bookings) + wl_seq < MaxRows
CanInsertWaiting == wl_seq < MaxWait /\ Len(bookings) + wl_seq < MaxRows

\* pnr TEXT UNIQUE NOT NULL: an INSERT with a pnr that a row already has
\* raises sqlite3.IntegrityError; the variant has no such constraint
PnrTakenIgnored(pnr) == FALSE
PnrTaken(pnr) == \E p \in 1..Len(bookings) : bookings[p].pnr = pnr

\* generate_pnr: ten random characters.  Only equality of codes matters, so a
\* code is either the code of an existing row or a new one; new codes are
\* numbered in the order of issue.
generate_pnr == 1..(Len(bookings) + 1)

\* the two statements below without their train_id = ? condition
DeleteFirstAndRenumberAll(tid) ==
  { [w EXCEPT !.position = @ - 1] :
      w \in { x \in waiting_list : x.position # 1 } }

\* DELETE ... WHERE train_id = ? AND position = 1, then
\* UPDATE ... SET position = position - 1 WHERE train_id = ?
DeleteFirstAndRenumber(tid) ==
  { w \in waiting_list : w.train_id # tid }
    \cup { [w EXCEPT !.position = @ - 1] :
             w \in { x \in WaitRowsOf(tid) : x.position # 1 } }

\* SELECT * FROM waiting_list ORDER BY train_id, position: every order of the
\* rows that the sort keys allow
OrderedWaitingList ==
  LET n == Cardinality(waiting_list) IN
  { s \in [1..n -> waiting_list] :
      /\ \A i, j \in 1..n : i # j => s[i] # s[j]
      /\ \A i, j \in 1..n : i < j =>
           \/ s[i].train_id < s[j].train_id
           \/ s[i].train_id = s[j].train_id /\ s[i].position <= s[j].position }

\* SELECT * FROM trains ORDER BY id
RECURSIVE TrainRows(_)
TrainRows(ids) ==
  IF ids = {} THEN << >>
  ELSE LET m == CHOOSE x \in ids : \A y \in ids : x <= y IN
       << TrainDict(m, trains[m].total_seats, trains[m].available_seats) >>
         \o TrainRows(ids \ {m})

Result(op, fe, tid, out, pnr, seat, position, promoted) ==
  [op |-> op, fe |-> fe, train |-> tid, out |-> out, pnr |-> pnr,
   seat |-> seat, position |-> position, promoted |-> promoted]

Fail(op, fe, tid, out) == Result(op, fe, tid, out, 0, 0, 0, 0)

\* ---------------------------------------------------------------- startup
\* sync_waiting_lists: enqueue every row, creating a queue where there is none
RECURSIVE EnqueueRows(_, _)
EnqueueRows(queues, rows) ==
  IF rows = << >> THEN queues
  ELSE LET w  == Head(rows)
           q0 == IF w.train_id \in DOMAIN queues
                 THEN queues
                 ELSE [t \in DOMAIN queues \cup {w.train_id} |->
                         IF t \in DOMAIN queues THEN queues[t] ELSE << >>]
       IN EnqueueRows([q0 EXCEPT ![w.train_id] = enqueue(@, w)], Tail(rows))

\* sync_trains_to_linked_list: a queue for every train that has none
QueuesForTrains(queues) ==
  [t \in DOMAIN queues \cup DOMAIN trains |->
     IF t \in DOMAIN queues THEN queues[t] ELSE << >>]

EmptyQueues == [t \in {} |-> << >>]

Init ==
  /\ trains = [t \in {} |-> TrainDict(0, 0, 0)]
  /\ train_seq = 0
  /\ bookings = << >>
  /\ waiting_list = {}
  /\ wl_seq = 0
  /\ trains_linked_list = << >>
  /\ waiting_queues = EmptyQueues
  /\ t_running = FALSE
  /\ t_trains_list = << >>
  /\ t_waiting_queues = EmptyQueues
  /\ s_call = NoCall
  /\ t_call = NoCall
  /\ calls = 0
  /\ crashes = 0
  /\ starts = 0
  /\ adjusts = 0
  /\ collisions = 0
  /\ last = Fail("init", "none", 0, "ok")

\* The server process starts: the module body runs sync_trains_to_linked_list
\* and sync_waiting_lists on empty globals, then the startup event runs both
\* again on the same globals.
ServerLoads ==
  /\ \E rows1 \in OrderedWaitingList, rows2 \in OrderedWaitingList :
       LET q1 == EnqueueRows(QueuesForTrains(EmptyQueues), rows1)
           q2 == EnqueueRows(QueuesForTrains(q1), rows2)
       IN waiting_queues' = q2
  /\ trains_linked_list' = TrainRows(DOMAIN trains)

startup_event ==
  /\ UNCHANGED inflight
  /\ starts < MaxStarts
  /\ starts' = starts + 1
  /\ UNCHANGED <<adjusts, collisions>>
  /\ ServerLoads
  /\ last' = Fail("startup", "server", 0, "ok")
  /\ UNCHANGED <<durable, t_mirror>>

\* ---------------------------------------------------------------- server.py
\* POST /api/trains
create_train(total_seats, u) ==
  /\ UNCHANGED inflight
  /\ UNCHANGED budget
  /\ IF role(u) # "admin"
     THEN /\ last' = Fail("create_train", "server", 0, "403")
          /\ UNCHANGED <<durable, s_mirror, t_mirror>>
     ELSE /\ train_seq < MaxTrains
          /\ LET train_id == train_seq + 1 IN
             /\ trains' = [t \in DOMAIN trains \cup {train_id} |->
                             IF t = train_id
                             THEN TrainDict(train_id, total_seats, total_seats)
                             ELSE trains[t]]
             /\ train_seq' = train_id
             /\ trains_linked_list' =
                  insert_at_end(trains_linked_list,
                                TrainDict(train_id, total_seats, total_seats))
             /\ waiting_queues' =
                  [t \in DOMAIN waiting_queues \cup {train_id} |->
                     IF t = train_id THEN << >> ELSE waiting_queues[t]]
             /\ last' = Fail("create_train", "server", train_id, "ok")
          /\ UNCHANGED <<bookings, waiting_list, wl_seq, t_mirror>>

\* a variant of the handler below that, having changed total_seats, also
\* takes the first waiting passenger of the train off the waiting list
update_train_promoting(train_id, total_seats, u, current_train) ==
  /\ UNCHANGED <<starts, collisions>>
  /\ role(u) = "admin"
  /\ train_id \in DOMAIN trains
  /\ current_train.id # NoValue
  /\ total_seats # 0
  /\ adjusts < MaxAdjust
  /\ adjusts' = adjusts + 1
  /\ trains' = [trains EXCEPT
                  ![train_id].total_seats = total_seats,
                  ![train_id].available_seats =
                    @ + total_seats - current_train.total_seats]
  /\ waiting_list' = DeleteFirstAndRenumber(train_id)
  /\ last' = Fail("update_train", "server", train_id, "ok")
  /\ UNCHANGED <<train_seq, bookings, wl_seq, s_mirror, t_mirror>>

\* PUT /api/trains/{train_id}, the total_seats field of TrainUpdate
\* (NoValue: the field is not given)
update_train_from(train_id, total_seats, u, current_train) ==
  /\ UNCHANGED <<starts, collisions>>
  /\ IF role(u) # "admin"
     THEN /\ last' = Fail("update_train", "server", train_id, "403")
          /\ UNCHANGED <<durable, s_mirror, t_mirror, adjusts>>
     ELSE IF current_train.id = NoValue
     THEN /\ last' = Fail("update_train", "server", train_id, "404")
          /\ UNCHANGED <<durable, s_mirror, t_mirror, adjusts>>
     ELSE IF total_seats = 0
     THEN /\ last' = Fail("update_train", "server", train_id, "no updates")
          /\ UNCHANGED <<durable, s_mirror, t_mirror, adjusts>>
     ELSE LET seat_diff == total_seats - current_train.total_seats IN
          /\ adjusts < MaxAdjust
          /\ adjusts' = adjusts + 1
          /\ trains' = IF train_id \in DOMAIN trains
                       THEN [trains EXCEPT
                               ![train_id].total_seats = total_seats,
                               ![train_id].available_seats = @ + seat_diff]
                       ELSE trains
          /\ last' = Fail("update_train", "server", train_id, "ok")
          /\ UNCHANGED <<train_seq, bookings, waiting_list, wl_seq,
                         s_mirror, t_mirror>>

update_train(train_id, total_seats, u) ==
  /\ UNCHANGED inflight
  /\ update_train_from(train_id, total_seats, u, SelectTrain(train_id))

\* DELETE /api/trains/{train_id}
delete_train(train_id, u) ==
  /\ UNCHANGED inflight
  /\ UNCHANGED budget
  /\ IF role(u) # "admin"
     THEN /\ last' = Fail("delete_train", "server", train_id, "403")
          /\ UNCHANGED <<durable, s_mirror, t_mirror>>
     ELSE IF train_id \notin DOMAIN trains
     THEN /\ last' = Fail("delete_train", "server", train_id, "404")
          /\ UNCHANGED <<durable, s_mirror, t_mirror>>
     ELSE /\ trains' = [t \in DOMAIN trains \ {train_id} |-> trains[t]]
          /\ trains_linked_list' = delete_by_value(trains_linked_list, train_id)
          /\ waiting_queues' =
               [t \in DOMAIN waiting_queues \ {train_id} |-> waiting_queues[t]]
          /\ bookings' = BookingsAfterDelete(train_id)
          /\ last' = Fail("delete_train", "server", train_id, "ok")
          /\ UNCHANGED <<train_seq, waiting_list, wl_seq, t_mirror>>

\* POST /api/bookings
create_booking_from(train_id, u, pax, train_db) ==
  /\ UNCHANGED <<starts, adjusts>>
  /\ LET i == search(trains_linked_list, train_id) IN
     IF i = 0
     THEN /\ last' = Fail("create_booking", "server", train_id, "404")
          /\ UNCHANGED collisions
          /\ UNCHANGED <<durable, s_mirror, t_mirror>>
     ELSE IF train_db.id = NoValue
     THEN \* cursor.fetchone() is None: train_db['available_seats'] raises
          /\ last' = Fail("create_booking", "server", train_id, "500")
          /\ UNCHANGED collisions
          /\ UNCHANGED <<durable, s_mirror, t_mirror>>
     ELSE
     IF train_db.available_seats > 0
     THEN \E pnr \in generate_pnr :
            IF PnrTaken(pnr)
            THEN \* pnr TEXT UNIQUE: the INSERT raises, nothing is committed
                 /\ last' = Fail("create_booking", "server", train_id, "500")
                 /\ collisions < MaxCollisions
                 /\ collisions' = collisions + 1
                 /\ UNCHANGED <<durable, s_mirror, t_mirror>>
            ELSE LET seat_number ==
                       train_db.total_seats - train_db.available_seats + 1
                 IN
                 /\ CanInsertBooking
                 /\ bookings' = Append(bookings,
                      BookingRow(pnr, u, train_id, pax, seat_number,
                                 "confirmed"))
                 /\ trains' = AddAvailable(train_id, -1)
                 /\ trains_linked_list' =
                      [trains_linked_list EXCEPT ![i].available_seats = @ - 1]
                 /\ last' = Result("create_booking", "server", train_id,
                                   "confirmed", pnr, seat_number, 0, 0)
                 /\ UNCHANGED collisions
                 /\ UNCHANGED <<train_seq, waiting_list, wl_seq,
                                waiting_queues, t_mirror>>
     ELSE LET q0 == IF train_id \in DOMAIN waiting_queues
                    THEN waiting_queues
                    ELSE [t \in DOMAIN waiting_queues \cup {train_id} |->
                            IF t = train_id THEN << >> ELSE waiting_queues[t]]
              position == size(q0[train_id]) + 1
              waiting_data == WaitRow(NoValue, NoValue, u, pax, position)
          IN
          /\ CanInsertWaiting
          /\ waiting_queues' = [q0 EXCEPT ![train_id] = enqueue(@, waiting_data)]
          /\ waiting_list' = waiting_list \cup
               { WaitRow(wl_seq + 1, train_id, u, pax, position) }
          /\ wl_seq' = wl_seq + 1
          /\ last' = Result("create_booking", "server", train_id,
                            "waiting", 0, 0, position, 0)
          /\ UNCHANGED collisions
          /\ UNCHANGED <<trains, train_seq, bookings, trains_linked_list, t_mirror>>

create_booking(train_id, u, pax) ==
  /\ UNCHANGED inflight
  /\ create_booking_from(train_id, u, pax, SelectTrain(train_id))

\* DELETE /api/bookings/{pnr}
cancel_booking_from(pnr, u, booking) ==
  /\ UNCHANGED <<starts, adjusts>>
  /\ IF booking.user_id = NoValue
     THEN /\ last' = Fail("cancel_booking", "server", 0, "404")
          /\ UNCHANGED collisions
          /\ UNCHANGED <<durable, s_mirror, t_mirror>>
     ELSE LET train_id == booking.train_id
              cancelled == [bookings EXCEPT ![pnr].booking_status = "cancelled"]
          IN
     IF NotOwnerNorAdmin(booking, u)
     THEN /\ last' = Fail("cancel_booking", "server", train_id, "403")
          /\ UNCHANGED collisions
          /\ UNCHANGED <<durable, s_mirror, t_mirror>>
     ELSE IF AlreadyCancelled(booking)
     THEN /\ last' = Fail("cancel_booking", "server", train_id, "400")
          /\ UNCHANGED collisions
          /\ UNCHANGED <<durable, s_mirror, t_mirror>>
     ELSE IF train_id \in DOMAIN waiting_queues
             /\ ~ is_empty(waiting_queues[train_id])
     THEN LET waiting_passenger == Head(waiting_queues[train_id]) IN
          /\ waiting_queues' =
               [waiting_queues EXCEPT ![train_id] = dequeue_rest(@)]
          /\ \E new_pnr \in generate_pnr :
               IF PnrTaken(new_pnr)
               THEN \* the INSERT raises after the dequeue; nothing is committed
                    /\ last' = Fail("cancel_booking", "server", train_id, "500")
                    /\ collisions < MaxCollisions
                    /\ collisions' = collisions + 1
                    /\ UNCHANGED durable
               ELSE /\ CanInsertBooking
                    /\ bookings' = Append(cancelled,
                         BookingRow(new_pnr, waiting_passenger.user_id,
                                    train_id, waiting_passenger.pax,
                                    booking.seat_number, "confirmed"))
                    /\ waiting_list' = DeleteFirstAndRenumber(train_id)
                    /\ last' = Result("cancel_booking", "server", train_id,
                                      "promoted", pnr, booking.seat_number, 0,
                                      new_pnr)
                    /\ UNCHANGED collisions
                    /\ UNCHANGED <<trains, train_seq, wl_seq>>
          /\ UNCHANGED <<trains_linked_list, t_mirror>>
     ELSE LET i == search(trains_linked_list, train_id) IN
          /\ bookings' = cancelled
          /\ trains' = AddAvailable(train_id, 1)
          /\ trains_linked_list' =
               IF i = 0 THEN trains_linked_list
               ELSE [trains_linked_list EXCEPT ![i].available_seats = @ + 1]
          /\ last' = Result("cancel_booking", "server", train_id,
                            "cancelled", pnr, booking.seat_number, 0, 0)
          /\ UNCHANGED collisions
          /\ UNCHANGED <<train_seq, waiting_list, wl_seq, waiting_queues, t_mirror>>

cancel_booking(pnr, u) ==
  /\ UNCHANGED inflight
  /\ cancel_booking_from(pnr, u, SelectBooking(pnr))

\* ---------------------------------------------------------------- terminal_app.py
\* load_data: a queue for every train, then the waiting rows of those trains
RECURSIVE LoadRows(_, _)
LoadRows(queues, rows) ==
  IF rows = << >> THEN queues
  ELSE LET w == Head(rows) IN
       LoadRows(IF w.train_id \in DOMAIN queues
                THEN [queues EXCEPT ![w.train_id] = enqueue(@, w)]
                ELSE queues,
                Tail(rows))

Stopped ==
  /\ t_running' = FALSE
  /\ t_trains_list' = << >>
  /\ t_waiting_queues' = EmptyQueues

\* RailwayTerminal(): the terminal is started (again)
t_load_data ==
  /\ UNCHANGED inflight
  /\ starts < MaxStarts
  /\ starts' = starts + 1
  /\ UNCHANGED <<adjusts, collisions>>
  /\ \E rows \in OrderedWaitingList :
       t_waiting_queues' = LoadRows(QueuesForTrains(EmptyQueues), rows)
  /\ t_trains_list' = TrainRows(DOMAIN trains)
  /\ t_running' = TRUE
  /\ last' = Fail("load_data", "terminal", 0, "ok")
  /\ UNCHANGED <<durable, s_mirror>>

\* admin menu, 1. Add New Train
t_add_train(total_seats) ==
  /\ UNCHANGED inflight
  /\ t_running
  /\ UNCHANGED budget
  /\ train_seq < MaxTrains
  /\ LET train_id == train_seq + 1 IN
     /\ trains' = [t \in DOMAIN trains \cup {train_id} |->
                     IF t = train_id
                     THEN TrainDict(train_id, total_seats, total_seats)
                     ELSE trains[t]]
     /\ train_seq' = train_id
     /\ t_trains_list' =
          insert_at_end(t_trains_list,
                        TrainDict(train_id, total_seats, total_seats))
     /\ t_waiting_queues' =
          [t \in DOMAIN t_waiting_queues \cup {train_id} |->
             IF t = train_id THEN << >> ELSE t_waiting_queues[t]]
     /\ last' = Fail("add_train", "terminal", train_id, "ok")
  /\ UNCHANGED <<bookings, waiting_list, wl_seq, s_mirror, t_running>>

\* admin menu, 4. Delete Train
t_delete_train(train_id) ==
  /\ UNCHANGED inflight
  /\ t_running
  /\ UNCHANGED budget
  /\ IF train_id \in DOMAIN trains
     THEN /\ trains' = [t \in DOMAIN trains \ {train_id} |-> trains[t]]
          /\ t_trains_list' = delete_by_value(t_trains_list, train_id)
          /\ bookings' = BookingsAfterDelete(train_id)
          /\ last' = Fail("delete_train", "terminal", train_id, "ok")
     ELSE /\ last' = Fail("delete_train", "terminal", train_id, "not found")
          /\ UNCHANGED <<trains, bookings, t_trains_list>>
  /\ UNCHANGED <<train_seq, waiting_list, wl_seq, s_mirror,
                 t_running, t_waiting_queues>>

\* passenger menu, 3. Book Ticket; choice is the number of the train in the
\* list shown
t_book_ticket_from(choice, u, pax, current_train) ==
  /\ t_running
  /\ UNCHANGED <<starts, adjusts>>
  /\ choice \in 1..Len(t_trains_list)
  /\ LET train == t_trains_list[choice]
         tid   == train.id
     IN
     IF current_train.id = NoValue
     THEN \* cursor.fetchone() is None: current_train['available_seats']
          \* raises and the program ends
          /\ Stopped
          /\ last' = Fail("book_ticket", "terminal", tid, "crash")
          /\ UNCHANGED collisions
          /\ UNCHANGED <<durable, s_mirror>>
     ELSE
     IF current_train.available_seats > 0
     THEN \E pnr \in generate_pnr :
            IF PnrTaken(pnr)
            THEN \* pnr TEXT UNIQUE: the INSERT raises and the program ends
                 /\ Stopped
                 /\ last' = Fail("book_ticket", "terminal", tid, "crash")
                 /\ collisions < MaxCollisions
                 /\ collisions' = collisions + 1
                 /\ UNCHANGED <<durable, s_mirror>>
            ELSE LET seat_number == current_train.total_seats
                                      - current_train.available_seats + 1
                 IN
                 /\ CanInsertBooking
                 /\ bookings' = Append(bookings,
                      BookingRow(pnr, u, tid, pax, seat_number, "confirmed"))
                 /\ trains' = AddAvailable(tid, -1)
                 /\ t_trains_list' = update(t_trains_list, tid,
                      [train EXCEPT !.available_seats = @ - 1])
                 /\ last' = Result("book_ticket", "terminal", tid,
                                   "confirmed", pnr, seat_number, 0, 0)
                 /\ UNCHANGED collisions
                 /\ UNCHANGED <<train_seq, waiting_list, wl_seq, s_mirror,
                                t_running, t_waiting_queues>>
     ELSE LET position == size(t_waiting_queues[tid]) + 1
              waiting_data == WaitRow(NoValue, tid, NoValue, pax, position)
          IN
          /\ CanInsertWaiting
          /\ waiting_list' = waiting_list \cup
               { WaitRow(wl_seq + 1, tid, u, pax, position) }
          /\ wl_seq' = wl_seq + 1
          /\ t_waiting_queues' =
               [t_waiting_queues EXCEPT ![tid] = enqueue(@, waiting_data)]
          /\ last' = Result("book_ticket", "terminal", tid,
                            "waiting", 0, 0, position, 0)
          /\ UNCHANGED collisions
          /\ UNCHANGED <<trains, train_seq, bookings, s_mirror,
                         t_running, t_trains_list>>

\* the train the passenger picks from the list shown, 0 for an invalid choice
Picked(choice) ==
  IF choice \in 1..Len(t_trains_list) THEN t_trains_list[choice].id ELSE NoValue

t_book_ticket(choice, u, pax) ==
  /\ UNCHANGED inflight
  /\ t_book_ticket_from(choice, u, pax, SelectTrain(Picked(choice)))

\* passenger menu, 5. Cancel Ticket
t_cancel_ticket_from(pnr, u, booking) ==
  /\ t_running
  /\ UNCHANGED <<starts, adjusts>>
  /\ IF booking.user_id = NoValue
     THEN /\ last' = Fail("cancel_ticket", "terminal", 0, "not found")
          /\ UNCHANGED collisions
          /\ UNCHANGED <<durable, s_mirror, t_mirror>>
     ELSE LET tid       == booking.train_id
              cancelled == [bookings EXCEPT ![pnr].booking_status = "cancelled"]
          IN
     IF AlreadyCancelled(booking)
     THEN /\ last' = Fail("cancel_ticket", "terminal", tid, "already cancelled")
          /\ UNCHANGED collisions
          /\ UNCHANGED <<durable, s_mirror, t_mirror>>
     ELSE IF tid \notin DOMAIN t_waiting_queues
     THEN \* only the status update is committed
          /\ bookings' = cancelled
          /\ last' = Result("cancel_ticket", "terminal", tid,
                            "cancelled", pnr, booking.seat_number, 0, 0)
          /\ UNCHANGED collisions
          /\ UNCHANGED <<trains, train_seq, waiting_list, wl_seq,
                         s_mirror, t_mirror>>
     ELSE IF ~ is_empty(t_waiting_queues[tid])
     THEN LET waiting_passenger == Head(t_waiting_queues[tid]) IN
          \E new_pnr \in generate_pnr :
            IF PnrTaken(new_pnr)
            THEN \* the INSERT raises and the program ends
                 /\ Stopped
                 /\ last' = Fail("cancel_ticket", "terminal", tid, "crash")
                 /\ collisions < MaxCollisions
                 /\ collisions' = collisions + 1
                 /\ UNCHANGED <<durable, s_mirror>>
            ELSE /\ CanInsertBooking
                 /\ t_waiting_queues' =
                      [t_waiting_queues EXCEPT ![tid] = dequeue_rest(@)]
                 /\ bookings' = Append(cancelled,
                      BookingRow(new_pnr, u, tid, waiting_passenger.pax,
                                 booking.seat_number, "confirmed"))
                 /\ waiting_list' = DeleteFirstAndRenumber(tid)
                 /\ last' = Result("cancel_ticket", "terminal", tid,
                                   "promoted", pnr, booking.seat_number, 0,
                                   new_pnr)
                 /\ UNCHANGED collisions
                 /\ UNCHANGED <<trains, train_seq, wl_seq, s_mirror,
                                t_running, t_trains_list>>
     ELSE /\ bookings' = cancelled
          /\ trains' = AddAvailable(tid, 1)
          /\ last' = Result("cancel_ticket", "terminal", tid,
                            "cancelled", pnr, booking.seat_number, 0, 0)
          /\ UNCHANGED collisions
          /\ UNCHANGED <<train_seq, waiting_list, wl_seq, s_mirror, t_mirror>>

t_cancel_ticket(pnr, u) ==
  /\ UNCHANGED inflight
  /\ t_cancel_ticket_from(pnr, u, SelectOwnBooking(pnr, u))

Next ==
  \/ startup_event
  \/ \E n \in SeatInputs : create_train(n, Admin)
  \/ \E t \in 1..MaxTrains, n \in SeatInputs : update_train(t, n, Admin)
  \/ \E t \in 1..MaxTrains : delete_train(t, Admin)
  \/ \E t \in 1..MaxTrains : create_booking(t, HttpUser, PaxOf(HttpUser))
  \/ \E p \in 1..MaxBookings, u \in Users : cancel_booking(p, u)
  \/ t_load_data
  \/ \E n \in SeatInputs : t_add_train(n)
  \/ \E t \in 1..MaxTrains : t_delete_train(t)
  \/ \E c \in 1..MaxTrains : t_book_ticket(c, TerminalUser, PaxOf(TerminalUser))
  \/ \E p \in 1..MaxBookings, u \in Passengers : t_cancel_ticket(p, u)

Spec == Init /\ [][Next]_vars

\* ---------------------------------------------------------------- interleaved handlers
\* The two front ends are two processes on one database file.  Neither
\* handler opens a transaction before its SELECT (database.py:10-14,
\* sqlite3's default isolation): the SELECT is one step, and the writes up to
\* commit() are a second one, taken under the write lock.  Between the two the
\* other process may run.  A process handles one request at a time.
create_booking_select(train_id, u, pax) ==
  /\ calls < MaxCalls
  /\ calls' = calls + 1
  /\ s_call = NoCall
  /\ s_call' = [op |-> "create_booking", train_id |-> train_id, u |-> u,
                pax |-> pax, row |-> SelectTrain(train_id),
                seen |-> Len(bookings)]
  /\ UNCHANGED <<durable, s_mirror, t_mirror, t_call, budget, crashes, last>>

create_booking_commit ==
  /\ s_call.op = "create_booking"
  /\ create_booking_from(s_call.train_id, s_call.u, s_call.pax, s_call.row)
  /\ s_call' = NoCall
  /\ UNCHANGED <<t_call, calls, crashes>>

cancel_booking_select(pnr, u) ==
  /\ calls < MaxCalls
  /\ calls' = calls + 1
  /\ s_call = NoCall
  /\ s_call' = [op |-> "cancel_booking", pnr |-> pnr, u |-> u,
                row |-> SelectBooking(pnr), seen |-> wl_seq]
  /\ UNCHANGED <<durable, s_mirror, t_mirror, t_call, budget, crashes, last>>

cancel_booking_commit ==
  /\ s_call.op = "cancel_booking"
  /\ cancel_booking_from(s_call.pnr, s_call.u, s_call.row)
  /\ s_call' = NoCall
  /\ UNCHANGED <<t_call, calls, crashes>>

update_train_select(train_id, total_seats, u) ==
  /\ calls < MaxCalls
  /\ calls' = calls + 1
  /\ s_call = NoCall
  /\ s_call' = [op |-> "update_train", train_id |-> train_id,
                total_seats |-> total_seats, u |-> u,
                row |-> SelectTrain(train_id)]
  /\ UNCHANGED <<durable, s_mirror, t_mirror, t_call, budget, crashes, last>>

update_train_commit ==
  /\ s_call.op = "update_train"
  /\ update_train_from(s_call.train_id, s_call.total_seats, s_call.u, s_call.row)
  /\ s_call' = NoCall
  /\ UNCHANGED <<t_call, calls, crashes>>

t_book_ticket_select(choice, u, pax) ==
  /\ calls < MaxCalls
  /\ calls' = calls + 1
  /\ t_running
  /\ t_call = NoCall
  /\ choice \in 1..Len(t_trains_list)
  /\ t_call' = [op |-> "book_ticket", choice |-> choice, u |-> u, pax |-> pax,
                row |-> SelectTrain(Picked(choice)), seen |-> Len(bookings)]
  /\ UNCHANGED <<durable, s_mirror, t_mirror, s_call, budget, crashes, last>>

t_book_ticket_commit ==
  /\ t_call.op = "book_ticket"
  /\ t_book_ticket_from(t_call.choice, t_call.u, t_call.pax, t_call.row)
  /\ t_call' = NoCall
  /\ UNCHANGED <<s_call, calls, crashes>>

t_cancel_ticket_select(pnr, u) ==
  /\ calls < MaxCalls
  /\ calls' = calls + 1
  /\ t_running
  /\ t_call = NoCall
  /\ t_call' = [op |-> "cancel_ticket", pnr |-> pnr, u |-> u,
                row |-> SelectOwnBooking(pnr, u), seen |-> wl_seq]
  /\ UNCHANGED <<durable, s_mirror, t_mirror, s_call, budget, crashes, last>>

t_cancel_ticket_commit ==
  /\ t_call.op = "cancel_ticket"
  /\ t_cancel_ticket_from(t_call.pnr, t_call.u, t_call.row)
  /\ t_call' = NoCall
  /\ UNCHANGED <<s_call, calls, crashes>>

\* Two SELECTs of different processes commute, so every interleaving has the
\* same effect as one in which the terminal takes its SELECT first: the
\* terminal starts a request only while the server has none in flight.
ConcNext ==
  \/ s_call = NoCall /\ \E n \in SeatInputs : create_train(n, Admin)
  \/ t_call = NoCall /\ t_load_data
  \/ \E t \in 1..MaxTrains : create_booking_select(t, HttpUser, PaxOf(HttpUser))
  \/ create_booking_commit
  \/ \E p \in 1..MaxBookings, u \in Passengers : cancel_booking_select(p, u)
  \/ cancel_booking_commit
  \/ \E t \in 1..MaxTrains, n \in SeatInputs : update_train_select(t, n, Admin)
  \/ update_train_commit
  \/ s_call = NoCall /\ \E c \in 1..MaxTrains :
       t_book_ticket_select(c, TerminalUser, PaxOf(TerminalUser))
  \/ t_book_ticket_commit
  \/ s_call = NoCall /\ \E p \in 1..MaxBookings, u \in Passengers :
       t_cancel_ticket_select(p, u)
  \/ t_cancel_ticket_commit

ConcSpec == Init /\ [][ConcNext]_vars

\* ---------------------------------------------------------------- statement by statement
\* The server's handlers once more, one statement per step, so that the
\* server process can die between any two statements of a request.  Only
\* requests that pass the handler's checks are followed: a booking on a
\* train of the list and the table, the cancellation of a confirmed booking
\* by its owner, a change of total_seats by the administrator.

\* the database file: what a new connection reads
File ==
  [trains |-> trains, bookings |-> bookings,
   waiting_list |-> waiting_list, wl_seq |-> wl_seq]

\* get_db_connection: sqlite3.connect(DB_PATH) with the default
\* isolation_level.  The first INSERT/UPDATE/DELETE opens a transaction and
\* the file keeps the committed rows until conn.commit(): a statement
\* changes the connection's view conn and leaves the file as it is.
FileAfterStatement(file, conn) == file

\* the request as the handler holds it after its SELECT: todo is the list of
\* statements still to run on the branch taken, conn the connection's view
\* of the tables, pre the tables as the request found them
Request(op, train_id, u, out, todo) ==
  [op |-> op, train_id |-> train_id, u |-> u, holder |-> u, pax |-> 0,
   pnr |-> 0, new_pnr |-> 0, seat |-> 0, position |-> 0, delta |-> 0,
   total_seats |-> 0, out |-> out, todo |-> todo,
   pre |-> File, conn |-> File, committed |-> FALSE]

Running(stmt) ==
  /\ s_call # NoCall
  /\ s_call.todo # << >>
  /\ Head(s_call.todo) = stmt

\* a statement has run on the connection: call is the request with what the
\* handler has learnt, conn the connection's view after the statement
Executed(call, conn) ==
  LET file == FileAfterStatement(File, conn) IN
  /\ trains' = file.trains
  /\ bookings' = file.bookings
  /\ waiting_list' = file.waiting_list
  /\ wl_seq' = file.wl_seq
  /\ s_call' = [call EXCEPT !.todo = Tail(@), !.conn = conn]
  /\ UNCHANGED <<train_seq, s_mirror>>

\* a step inside a request, the INSERT of a booking apart
Inside == UNCHANGED <<t_mirror, t_call, calls, crashes, budget, last>>

\* POST /api/bookings up to the test of available_seats
create_booking_begin(train_id, u, pax) ==
  /\ s_call = NoCall
  /\ search(trains_linked_list, train_id) # 0
  /\ train_id \in DOMAIN trains
  /\ LET train_db == SelectTrain(train_id) IN
     IF train_db.available_seats > 0
     THEN /\ CanInsertBooking
          /\ s_call' =
               [Request("create_booking", train_id, u, "confirmed",
                        <<"insert_booking", "update_seats", "update_list",
                          "commit", "return">>)
                  EXCEPT !.pax = pax, !.delta = -1,
                         !.seat = train_db.total_seats
                                    - train_db.available_seats + 1]
     ELSE /\ CanInsertWaiting
          /\ s_call' =
               [Request("create_booking", train_id, u, "waiting",
                        <<"enqueue", "insert_waiting", "commit", "return">>)
                  EXCEPT !.pax = pax]
  /\ UNCHANGED <<durable, s_mirror>>
  /\ Inside

\* DELETE /api/bookings/{pnr} up to the status test; the queue the handler
\* tests after its UPDATE is the queue it would find here
cancel_booking_begin(pnr, u) ==
  /\ s_call = NoCall
  /\ LET booking  == SelectBooking(pnr)
         train_id == booking.train_id
     IN
     /\ booking.user_id # NoValue
     /\ booking.user_id = u \/ role(u) = "admin"
     /\ ~ AlreadyCancelled(booking)
     /\ IF train_id \in DOMAIN waiting_queues
           /\ ~ is_empty(waiting_queues[train_id])
        THEN /\ CanInsertBooking
             /\ s_call' =
                  [Request("cancel_booking", train_id, u, "promoted",
                           <<"set_cancelled", "dequeue", "insert_booking",
                             "delete_first", "renumber", "commit", "return">>)
                     EXCEPT !.pnr = pnr, !.seat = booking.seat_number]
        ELSE s_call' =
               [Request("cancel_booking", train_id, u, "cancelled",
                        <<"set_cancelled", "update_seats", "update_list",
                          "commit", "return">>)
                  EXCEPT !.pnr = pnr, !.seat = booking.seat_number,
                         !.delta = 1]
  /\ UNCHANGED <<durable, s_mirror>>
  /\ Inside

\* PUT /api/trains/{train_id} up to the building of the UPDATE
update_train_begin(train_id, total_seats, u) ==
  /\ s_call = NoCall
  /\ role(u) = "admin"
  /\ train_id \in DOMAIN trains
  /\ total_seats # 0
  /\ adjusts < MaxAdjust
  /\ adjusts' = adjusts + 1
  /\ s_call' =
       [Request("update_train", train_id, u, "ok",
                <<"update_train", "commit", "return">>)
          EXCEPT !.total_seats = total_seats,
                 !.delta = total_seats - trains[train_id].total_seats]
  /\ UNCHANGED <<durable, s_mirror, t_mirror, t_call, calls, crashes,
                 starts, collisions, last>>

\* INSERT INTO bookings (...) VALUES (...), of a booking or of a promotion
exec_insert_booking ==
  /\ Running("insert_booking")
  /\ UNCHANGED <<t_mirror, t_call, calls, crashes, starts, adjusts>>
  /\ \E new_pnr \in generate_pnr :
       IF PnrTaken(new_pnr)
       THEN \* the INSERT raises: the handler ends without commit
            /\ collisions < MaxCollisions
            /\ collisions' = collisions + 1
            /\ s_call' = NoCall
            /\ last' = Fail(s_call.op, "server", s_call.train_id, "500")
            /\ UNCHANGED <<durable, s_mirror>>
       ELSE /\ Executed([s_call EXCEPT !.new_pnr = new_pnr],
                        [s_call.conn EXCEPT !.bookings =
                           Append(@, BookingRow(new_pnr, s_call.holder,
                                                s_call.train_id, s_call.pax,
                                                s_call.seat, "confirmed"))])
            /\ UNCHANGED <<collisions, last>>

\* UPDATE trains SET available_seats = available_seats -/+ 1 WHERE id = ?
exec_update_seats ==
  /\ Running("update_seats")
  /\ Executed(s_call,
              [s_call.conn EXCEPT !.trains =
                 IF s_call.train_id \in DOMAIN @
                 THEN [@ EXCEPT ![s_call.train_id].available_seats =
                                  @ + s_call.delta]
                 ELSE @])
  /\ Inside

\* train['available_seats'] -= 1 / += 1; trains_linked_list.update(...)
update_list ==
  /\ Running("update_list")
  /\ LET i == search(trains_linked_list, s_call.train_id) IN
     trains_linked_list' =
       IF i = 0 THEN trains_linked_list
       ELSE [trains_linked_list EXCEPT ![i].available_seats = @ + s_call.delta]
  /\ s_call' = [s_call EXCEPT !.todo = Tail(@)]
  /\ UNCHANGED <<durable, waiting_queues>>
  /\ Inside

\* position = waiting_queues[train_id].size() + 1;
\* waiting_queues[train_id].enqueue(waiting_data)
queue_enqueue ==
  /\ Running("enqueue")
  /\ LET train_id == s_call.train_id
         q0 == IF train_id \in DOMAIN waiting_queues
               THEN waiting_queues
               ELSE [t \in DOMAIN waiting_queues \cup {train_id} |->
                       IF t = train_id THEN << >> ELSE waiting_queues[t]]
         position == size(q0[train_id]) + 1
     IN
     /\ waiting_queues' =
          [q0 EXCEPT ![train_id] =
             enqueue(@, WaitRow(NoValue, NoValue, s_call.u, s_call.pax,
                                position))]
     /\ s_call' = [s_call EXCEPT !.todo = Tail(@), !.position = position]
  /\ UNCHANGED <<durable, trains_linked_list>>
  /\ Inside

\* INSERT INTO waiting_list (...) VALUES (...)
exec_insert_waiting ==
  /\ Running("insert_waiting")
  /\ Executed(s_call,
              [s_call.conn EXCEPT
                 !.waiting_list = @ \cup
                   { WaitRow(s_call.conn.wl_seq + 1, s_call.train_id,
                             s_call.u, s_call.pax, s_call.position) },
                 !.wl_seq = @ + 1])
  /\ Inside

\* UPDATE bookings SET booking_status = 'cancelled' WHERE pnr = ?
exec_set_cancelled ==
  /\ Running("set_cancelled")
  /\ Executed(s_call,
              [s_call.conn EXCEPT
                 !.bookings[s_call.pnr].booking_status = "cancelled"])
  /\ Inside

\* waiting_passenger = waiting_queues[train_id].dequeue()
queue_dequeue ==
  /\ Running("dequeue")
  /\ LET waiting_passenger == Head(waiting_queues[s_call.train_id]) IN
     s_call' = [s_call EXCEPT !.todo = Tail(@),
                              !.holder = waiting_passenger.user_id,
                              !.pax = waiting_passenger.pax]
  /\ waiting_queues' =
       [waiting_queues EXCEPT ![s_call.train_id] = dequeue_rest(@)]
  /\ UNCHANGED <<durable, trains_linked_list>>
  /\ Inside

\* DELETE FROM waiting_list WHERE train_id = ? AND position = 1
exec_delete_first ==
  /\ Running("delete_first")
  /\ Executed(s_call,
              [s_call.conn EXCEPT !.waiting_list =
                 { w \in @ : ~ (w.train_id = s_call.train_id /\ w.position = 1) }])
  /\ Inside

\* UPDATE waiting_list SET position = position - 1 WHERE train_id = ?
exec_renumber ==
  /\ Running("renumber")
  /\ Executed(s_call,
              [s_call.conn EXCEPT !.waiting_list =
                 { IF w.train_id = s_call.train_id
                   THEN [w EXCEPT !.position = @ - 1] ELSE w : w \in @ }])
  /\ Inside

\* UPDATE trains SET total_seats = ?, available_seats = available_seats + ?
exec_update_train ==
  /\ Running("update_train")
  /\ Executed(s_call,
              [s_call.conn EXCEPT !.trains =
                 [@ EXCEPT ![s_call.train_id].total_seats = s_call.total_seats,
                           ![s_call.train_id].available_seats =
                             @ + s_call.delta]])
  /\ Inside

\* conn.commit(): the file holds what the connection wrote
exec_commit ==
  /\ Running("commit")
  /\ trains' = s_call.conn.trains
  /\ bookings' = s_call.conn.bookings
  /\ waiting_list' = s_call.conn.waiting_list
  /\ wl_seq' = s_call.conn.wl_seq
  /\ s_call' = [s_call EXCEPT !.todo = Tail(@), !.committed = TRUE]
  /\ UNCHANGED <<train_seq, s_mirror>>
  /\ Inside

\* conn.close(); return {...}
handler_return ==
  /\ Running("return")
  /\ last' = Result(s_call.op, "server", s_call.train_id, s_call.out,
                    IF s_call.op = "create_booking"
                    THEN s_call.new_pnr ELSE s_call.pnr,
                    s_call.seat, s_call.position,
                    IF s_call.out = "promoted" THEN s_call.new_pnr ELSE 0)
  /\ s_call' = NoCall
  /\ UNCHANGED <<durable, s_mirror, t_mirror, t_call, calls, crashes, budget>>

\* The server process dies inside a request and is started again: the
\* connection is gone with what it had not committed, the list and the
\* queues are gone and are loaded from the file.
crash ==
  /\ s_call # NoCall
  /\ crashes < MaxCrashes
  /\ crashes' = crashes + 1
  /\ ServerLoads
  /\ s_call' = NoCall
  /\ last' = Fail("crash", "server", s_call.train_id, "crash")
  /\ UNCHANGED <<durable, t_mirror, t_call, calls, budget>>

CrashNext ==
  \/ s_call = NoCall /\ \E n \in SeatInputs : create_train(n, Admin)
  \/ s_call = NoCall /\ startup_event
  \/ \E t \in 1..MaxTrains : create_booking_begin(t, HttpUser, PaxOf(HttpUser))
  \/ \E p \in 1..MaxBookings : cancel_booking_begin(p, HttpUser)
  \/ \E t \in 1..MaxTrains, n \in SeatInputs : update_train_begin(t, n, Admin)
  \/ exec_insert_booking
  \/ exec_update_seats
  \/ update_list
  \/ queue_enqueue
  \/ exec_insert_waiting
  \/ exec_set_cancelled
  \/ queue_dequeue
  \/ exec_delete_first
  \/ exec_renumber
  \/ exec_update_train
  \/ exec_commit
  \/ handler_return
  \/ crash

CrashSpec == Init /\ [][CrashNext]_vars

\* ---------------------------------------------------------------- properties
IsReserve(l) == l.op \in {"create_booking", "book_ticket"}
IsRelease(l) == l.op \in {"cancel_booking", "cancel_ticket"}
Released(l)  == IsRelease(l) /\ l.out \in {"cancelled", "promoted"}

\* seats held by the confirmed bookings of a train, and the seats left
HeldSeats(tid) == { bookings[p].seat_number : p \in ConfirmedOf(tid) }
FreeSeats(tid) == (1..trains[tid].total_seats) \ HeldSeats(tid)

Positions(tid) == { w.position : w \in WaitRowsOf(tid) }

\* C1: while only bookings and cancellations have been made on a train (no
\* change of total_seats), no two confirmed bookings of the train have the
\* same seat_number.
C1_NoSeatHeldTwice ==
  \A t \in DOMAIN trains :
    adjusts = 0 =>
      \A p, q \in ConfirmedOf(t) :
        p # q => bookings[p].seat_number # bookings[q].seat_number

\* C2: a booking made while available_seats > 0 gets the smallest seat in
\* 1..total_seats that no confirmed booking of the train holds.
C2_SmallestFreeSeat ==
  [][ \A t \in DOMAIN trains :
        ( /\ IsReserve(last') /\ last'.train = t /\ last'.out = "confirmed"
          /\ trains[t].available_seats > 0 )
        => /\ last'.seat \in FreeSeats(t)
           /\ \A k \in FreeSeats(t) : last'.seat <= k ]_vars

\* C3: for every train, available_seats = total_seats - number of confirmed
\* bookings of the train.
C3_AvailableIsTotalMinusActive ==
  \A t \in DOMAIN trains :
    trains[t].available_seats
      = trains[t].total_seats - Cardinality(ConfirmedOf(t))

\* C4: a cancellation on a train whose waiting_list has n >= 1 rows leaves
\* available_seats as it was, promotes the row at position 1 and no other,
\* and leaves n-1 rows at positions 1..n-1 in their previous order.
C4_ReleasePromotesFirst ==
  [][ \A t \in DOMAIN trains :
        ( /\ Released(last') /\ last'.train = t /\ collisions' = 0
          /\ WaitRowsOf(t) # {} )
        => /\ last'.out = "promoted"
           /\ trains'[t].available_seats = trains[t].available_seats
           /\ \E w \in WaitRowsOf(t) :
                /\ w.position = 1
                /\ WaitRowsOf(t)' =
                     { [x EXCEPT !.position = @ - 1] : x \in WaitRowsOf(t) \ {w} }
           /\ Positions(t)' = 1..(Cardinality(WaitRowsOf(t)) - 1) ]_vars

\* C5: the booking a promotion creates belongs to the user of the promoted
\* waiting_list row, carries that row's passenger, and has the seat_number
\* of the booking just cancelled.
C5_PromotedKeepsHolder ==
  [][ \A t \in DOMAIN trains :
        ( /\ IsRelease(last') /\ last'.train = t /\ last'.out = "promoted"
          /\ collisions' = 0
          /\ \E w \in WaitRowsOf(t) : w.position = 1 )
        => \E w \in WaitRowsOf(t) :
             /\ w.position = 1
             /\ w \notin waiting_list'
             /\ bookings'[last'.promoted] =
                  BookingRow(last'.promoted, w.user_id, t, w.pax,
                             bookings[last'.pnr].seat_number, "confirmed") ]_vars

\* C6: a booking accepted while available_seats = 0 is put on the waiting
\* list at position (number of waiting_list rows of the train) + 1: one row
\* is added at that position, no booking is created and available_seats
\* stays 0.
C6_WaitlistedAtNextPosition ==
  [][ \A t \in DOMAIN trains :
        ( /\ IsReserve(last') /\ last'.train = t
          /\ last'.out \in {"confirmed", "waiting"}
          /\ collisions' = 0
          /\ trains[t].available_seats = 0 )
        => /\ last'.out = "waiting"
           /\ last'.position = Cardinality(WaitRowsOf(t)) + 1
           /\ \E w \in waiting_list' \ waiting_list :
                /\ waiting_list' = waiting_list \cup {w}
                /\ w.train_id = t
                /\ w.position = Cardinality(WaitRowsOf(t)) + 1
           /\ bookings' = bookings
           /\ trains' = trains ]_vars

\* C7: a cancellation on a train that has no waiting_list row adds exactly 1
\* to available_seats and creates no booking.
C7_ReleaseFreesOneSeat ==
  [][ \A t \in DOMAIN trains :
        ( /\ Released(last') /\ last'.train = t /\ collisions' = 0
          /\ WaitRowsOf(t) = {} )
        => /\ trains'[t].available_seats = trains[t].available_seats + 1
           /\ Len(bookings') = Len(bookings) ]_vars

\* C8: for every train, the positions of its waiting_list rows are exactly
\* 1..n, each once.
C8_PositionsContiguous ==
  \A t \in DOMAIN trains :
    /\ Positions(t) = 1..Cardinality(WaitRowsOf(t))
    /\ \A v, w \in WaitRowsOf(t) : v # w => v.position # w.position

\* C9: while only bookings and cancellations have been made on a train (no
\* change of total_seats, and every generated pnr was new), available_seats
\* > 0 implies that the train has no waiting_list row.
C9_NoIdleSeatWhileWaiting ==
  \A t \in DOMAIN trains :
    (adjusts = 0 /\ collisions = 0 /\ trains[t].available_seats > 0)
      => WaitRowsOf(t) = {}

\* C10: for every train, available_seats >= 0.
C10_AvailableNonNegative ==
  \A t \in DOMAIN trains : trains[t].available_seats >= 0

\* PUT /api/trains/{train_id} by the administrator, total_seats given as n,
\* accepted by the handler (no 403, no 404)
Adjusts(t, n) == update_train(t, n, Admin) /\ t \in DOMAIN trains

\* available_seats after total_seats becomes n
AvailableAfter(t, n) ==
  trains[t].available_seats + (n - trains[t].total_seats)

\* C11: for every train, the seat_number of every confirmed booking lies in
\* 1..total_seats.
C11_SeatsWithinCapacity ==
  \A t \in DOMAIN trains :
    \A p \in ConfirmedOf(t) :
      bookings[p].seat_number \in 1..trains[t].total_seats

\* C12: a change of total_seats that would make available_seats negative is
\* not carried out: the handler does not report success, and the train's
\* counters, the bookings and the waiting list are as they were.
C12_ShrinkBelowHeldRefused ==
  [][ \A t \in 1..MaxTrains, n \in SeatInputs :
        ( Adjusts(t, n) /\ AvailableAfter(t, n) < 0 )
        => /\ last'.out # "ok"
           /\ trains' = trains
           /\ bookings' = bookings
           /\ waiting_list' = waiting_list ]_vars

\* C13: a change of total_seats to n >= 0 that leaves available_seats >= 0
\* (n = 0 included) sets total_seats to n and adds n - (old total_seats) to
\* available_seats.
C13_AdjustAppliesDelta ==
  [][ \A t \in 1..MaxTrains, n \in SeatInputs :
        ( Adjusts(t, n) /\ AvailableAfter(t, n) >= 0 )
        => /\ trains'[t].total_seats = n
           /\ trains'[t].available_seats = AvailableAfter(t, n) ]_vars

\* a cancellation the caller may ask for: the owner of the booking, or the
\* administrator through the server
MayCancel(p, u, fe) ==
  /\ p \in 1..Len(bookings)
  /\ \/ bookings[p].user_id = u
     \/ fe = "server" /\ role(u) = "admin"

\* C16: a cancellation of a pnr that no booking has is refused as not found,
\* and a cancellation of a booking already cancelled is refused as already
\* cancelled; in both cases the tables and both front ends' lists and queues
\* are unchanged.
C16_RefusedReleaseChangesNothing ==
  [][ /\ last'.op = "cancel_booking" =>
           \A p \in 1..MaxBookings, u \in Users :
             /\ ( p \notin 1..Len(bookings) /\ cancel_booking(p, u) )
                => /\ last'.out = "404"
                   /\ UNCHANGED <<durable, s_mirror, t_mirror>>
             /\ ( /\ MayCancel(p, u, "server")
                  /\ bookings[p].booking_status = "cancelled"
                  /\ cancel_booking(p, u) )
                => /\ last'.out = "400"
                   /\ UNCHANGED <<durable, s_mirror, t_mirror>>
      /\ last'.op = "cancel_ticket" =>
           \A p \in 1..MaxBookings, u \in Users :
             /\ ( p \notin 1..Len(bookings) /\ t_cancel_ticket(p, u) )
                => /\ last'.out = "not found"
                   /\ UNCHANGED <<durable, s_mirror, t_mirror>>
             /\ ( /\ MayCancel(p, u, "terminal")
                  /\ bookings[p].booking_status = "cancelled"
                  /\ t_cancel_ticket(p, u) )
                => /\ last'.out = "already cancelled"
                   /\ UNCHANGED <<durable, s_mirror, t_mirror>> ]_vars

\* a second cancellation of a booking has been refused while a passenger was
\* waiting for the train
C16_Witness ==
  /\ IsRelease(last)
  /\ last.out \in {"400", "already cancelled"}
  /\ \E p \in 1..Len(bookings) :
       bookings[p].booking_status = "cancelled" /\ bookings[p].train_id = last.train
  /\ WaitRowsOf(last.train) # {}

\* a front end's list and queues show the seat counter and the number of
\* waiting_list rows that the tables hold for train t
MirrorAgrees(list, queues, t) ==
  LET i == search(list, t) IN
  /\ i # 0
  /\ list[i].available_seats = trains[t].available_seats
  /\ t \in DOMAIN queues
  /\ size(queues[t]) = Cardinality(WaitRowsOf(t))

\* a booking, cancellation or change of total_seats that was carried out
Mutated(l) ==
  \/ IsReserve(l) /\ l.out \in {"confirmed", "waiting"}
  \/ Released(l)
  \/ l.op = "update_train" /\ l.out = "ok"

\* C17: when a front end whose list and queues agreed with the tables about
\* a train completes a booking, a cancellation or a change of total_seats on
\* that train, its list and queues agree with the tables afterwards.
C17_MirrorFollowsMutation ==
  [][ \A t \in DOMAIN trains :
        ( Mutated(last') /\ last'.train = t /\ t \in DOMAIN trains' )
        => /\ ( /\ last'.fe = "server"
                /\ MirrorAgrees(trains_linked_list, waiting_queues, t) )
              => MirrorAgrees(trains_linked_list, waiting_queues, t)'
           /\ ( /\ last'.fe = "terminal"
                /\ MirrorAgrees(t_trains_list, t_waiting_queues, t) )
              => MirrorAgrees(t_trains_list, t_waiting_queues, t)' ]_vars

\* a list and a dictionary of queues hold exactly what the tables hold: the
\* counters of every train, and for every train its waiting_list rows, each
\* once, in ascending order of position
HoldsTables(list, queues) ==
  \A t \in DOMAIN trains :
    LET i == search(list, t) IN
    /\ i # 0
    /\ list[i] = trains[t]
    /\ t \in DOMAIN queues
    /\ LET q == queues[t] IN
       /\ { q[k] : k \in 1..Len(q) } = WaitRowsOf(t)
       /\ Len(q) = Cardinality(WaitRowsOf(t))
       /\ \A j, k \in 1..Len(q) : j < k => q[j].position <= q[k].position

\* C18: when a front end has finished loading at its start, its list and
\* queues hold exactly what the tables hold.
C18_ReloadIsExact ==
  [][ /\ last'.op = "startup"
           => HoldsTables(trains_linked_list, waiting_queues)'
      /\ last'.op = "load_data"
           => HoldsTables(t_trains_list, t_waiting_queues)' ]_vars

\* C19: what a booking or a cancellation does is decided by the tables
\* alone, whatever the front end's list and queues hold: a booking on a train
\* of the trains table is accepted, confirmed exactly when available_seats >
\* 0, and otherwise put at position (number of waiting_list rows) + 1; a
\* cancellation promotes exactly when the train has a waiting_list row, and
\* promotes the row at position 1.
C19_WritesDecidedByTables ==
  [][ \A t \in DOMAIN trains :
        /\ ( IsReserve(last') /\ last'.train = t )
           => last'.out # "404"
        /\ ( /\ IsReserve(last') /\ last'.train = t
             /\ last'.out \in {"confirmed", "waiting"} )
           => /\ last'.out = "confirmed" <=> trains[t].available_seats > 0
              /\ last'.out = "waiting"
                   => last'.position = Cardinality(WaitRowsOf(t)) + 1
        /\ ( Released(last') /\ last'.train = t )
           => /\ last'.out = "promoted" <=> WaitRowsOf(t) # {}
              /\ last'.out = "promoted"
                   => \E w \in WaitRowsOf(t) :
                        /\ w.position = 1
                        /\ w \notin waiting_list'
                        /\ bookings'[last'.promoted].pax = w.pax ]_vars

\* C20: a booking or cancellation of the server whose INSERT raises (the
\* generated pnr is already in the bookings table) has no effect: the tables
\* and the server's list and queues are as before the call.
C20_FailedWriteChangesNothing ==
  [][ ( /\ IsReserve(last') \/ IsRelease(last')
        /\ last'.fe = "server"
        /\ collisions' # collisions )
      => UNCHANGED <<durable, s_mirror>> ]_vars

\* request c is a booking on train t that read available_seats = 1, and
\* since its SELECT the other front end has confirmed a booking on t and
\* taken that seat
RacedReserve(c, t) ==
  /\ c.op \in {"create_booking", "book_ticket"}
  /\ c.row.id = t
  /\ c.row.available_seats = 1
  /\ trains[t].available_seats = 0
  /\ \E p \in (c.seen + 1)..Len(bookings) :
       bookings[p].train_id = t /\ bookings[p].booking_status = "confirmed"

\* C14: when the two front ends book on a train with available_seats = 1 and
\* both read the counter before either writes, the second to write is not
\* confirmed, available_seats stays >= 0 and no two confirmed bookings of the
\* train have the same seat_number.
C14_OneSeatOneWinner ==
  [][ \A t \in DOMAIN trains :
        ( \/ RacedReserve(s_call, t) /\ s_call' = NoCall
          \/ RacedReserve(t_call, t) /\ t_call' = NoCall )
        => /\ last'.out # "confirmed"
           /\ trains'[t].available_seats >= 0
           /\ \A p, q \in 1..Len(bookings') :
                ( /\ p # q
                  /\ bookings'[p].train_id = t /\ bookings'[q].train_id = t
                  /\ bookings'[p].booking_status = "confirmed"
                  /\ bookings'[q].booking_status = "confirmed" )
                => bookings'[p].seat_number # bookings'[q].seat_number ]_vars

\* request c is a booking on train t, and since its SELECT the other front
\* end has confirmed a booking on t (total_seats is as read, available_seats
\* is lower); its own INSERT meets no pnr collision
OvertakenReserve(c, t) ==
  /\ c.op \in {"create_booking", "book_ticket"}
  /\ c.row.id = t
  /\ trains[t].total_seats = c.row.total_seats
  /\ trains[t].available_seats < c.row.available_seats
  /\ collisions' = collisions

\* C15: a booking that another booking on the same train overtakes between
\* its SELECT and its writes ends as in a serial order of the two.  The
\* other booking read the counter before this one wrote, so the only serial
\* order that can agree with it runs this booking second: what this booking
\* writes and returns at its commit is what the handler, run in one piece at
\* that moment, writes and returns.
C15_OvertakenReserveIsSerial ==
  [][ \A t \in DOMAIN trains :
        /\ ( OvertakenReserve(s_call, t) /\ s_call' = NoCall )
           => create_booking_from(s_call.train_id, s_call.u, s_call.pax,
                                  SelectTrain(s_call.train_id))
        /\ ( OvertakenReserve(t_call, t) /\ t_call' = NoCall )
           => t_book_ticket_from(t_call.choice, t_call.u, t_call.pax,
                                 SelectTrain(Picked(t_call.choice))) ]_vars

\* C28: no two rows of bookings have the same pnr, no step changes the pnr of
\* a row, and the booking a promotion inserts has a pnr other than that of
\* the booking just cancelled.
C28_CodesUniqueAndFixed ==
  [][ /\ \A p, q \in 1..Len(bookings') :
           p # q => bookings'[p].pnr # bookings'[q].pnr
      /\ \A p \in 1..Len(bookings) :
           p <= Len(bookings') => bookings'[p].pnr = bookings[p].pnr
      /\ ( IsRelease(last') /\ last'.out = "promoted" )
           => bookings'[Len(bookings')].pnr # bookings[last'.pnr].pnr ]_vars

\* a promotion has inserted a booking after generate_pnr had once returned
\* the pnr of an existing row
C28_Witness ==
  /\ IsRelease(last)
  /\ last.out = "promoted"
  /\ collisions > 0
  /\ Len(bookings) >= 2

\* the waiting_list row of train tid inserted first (AUTOINCREMENT id)
FirstEnqueued(tid) ==
  CHOOSE w \in WaitRowsOf(tid) : \A x \in WaitRowsOf(tid) : w.id <= x.id

\* C23: a promotion on a train takes the waiting_list row of the train that
\* was inserted first: that row leaves the table and the new booking carries
\* its user and its passenger, whoever the other waiting passengers are.
C23_PromotionIsFifo ==
  [][ \A t \in DOMAIN trains :
        ( /\ IsRelease(last') /\ last'.train = t /\ last'.out = "promoted"
          /\ WaitRowsOf(t) # {} )
        => LET w == FirstEnqueued(t) IN
           /\ \A x \in waiting_list' : x.id # w.id
           /\ bookings'[Len(bookings')].pax = w.pax ]_vars

\* C24: a change of total_seats inserts and changes no booking and leaves
\* the waiting_list rows and both front ends' queues as they were, also when
\* it makes available_seats > 0 while passengers wait.
C24_AdjustNeverPromotes ==
  [][ ( last'.op = "update_train" /\ last'.out = "ok" )
      => /\ bookings' = bookings
         /\ waiting_list' = waiting_list
         /\ waiting_queues' = waiting_queues
         /\ t_waiting_queues' = t_waiting_queues ]_vars

\* total_seats of a train was raised while a passenger waited for it, and
\* the train now has a free seat and the passenger still waits
C24_Witness ==
  /\ last.op = "update_train"
  /\ last.out = "ok"
  /\ last.train \in DOMAIN trains
  /\ trains[last.train].available_seats > 0
  /\ WaitRowsOf(last.train) # {}

\* C25: a row of bookings is inserted only by a confirmed booking or by a
\* promotion, as a confirmed row; the only change ever made to a row is
\* confirmed -> cancelled, made by the cancellation of that row; and no
\* step, the deletion of the train included, removes a row.
C25_BookingLifecycle ==
  [][ /\ Len(bookings') \in {Len(bookings), Len(bookings) + 1}
      /\ \A p \in 1..Len(bookings) :
           \/ bookings'[p] = bookings[p]
           \/ /\ bookings'[p] = [bookings[p] EXCEPT !.booking_status = "cancelled"]
              /\ bookings[p].booking_status = "confirmed"
              /\ Released(last')
              /\ last'.pnr = p
      /\ Len(bookings') = Len(bookings) + 1
           => /\ bookings'[Len(bookings')].booking_status = "confirmed"
              /\ \/ IsReserve(last') /\ last'.out = "confirmed"
                 \/ IsRelease(last') /\ last'.out = "promoted" ]_vars

\* a train has been deleted that had a confirmed and a cancelled booking
C25_Witness ==
  /\ last.op = "delete_train"
  /\ last.out = "ok"
  /\ \E p, q \in 1..Len(bookings) :
       /\ bookings[p].train_id = last.train
       /\ bookings[q].train_id = last.train
       /\ bookings[p].booking_status = "cancelled"
       /\ bookings[q].booking_status = "confirmed"

\* C26: the deletion of a train leaves no waiting_list row of the train and
\* no queue for it in the deleting front end; a front end that has just
\* loaded has a queue for exactly the trains of the trains table; and a
\* front end that has just created a train has a queue for it.
C26_QueuesFollowTrains ==
  [][ /\ ( last'.op = "delete_train" /\ last'.out = "ok" )
           => /\ \A w \in waiting_list' : w.train_id # last'.train
              /\ last'.fe = "server" => last'.train \notin DOMAIN waiting_queues'
              /\ last'.fe = "terminal" => last'.train \notin DOMAIN t_waiting_queues'
      /\ last'.op = "startup" => DOMAIN waiting_queues' = DOMAIN trains'
      /\ last'.op = "load_data" => DOMAIN t_waiting_queues' = DOMAIN trains'
      /\ ( last'.op = "create_train" /\ last'.out = "ok" )
           => last'.train \in DOMAIN waiting_queues'
      /\ last'.op = "add_train" => last'.train \in DOMAIN t_waiting_queues' ]_vars

\* C27: a booking ends confirmed, waiting, refused as train not found, or
\* with the storage error of its INSERT; a booking or a change of
\* total_seats on a train id that the trains table does not have is refused
\* as not found and changes neither the tables nor either front end's list
\* and queues; a booking on a train of the trains table is never refused as
\* not found.
C27_OneListedOutcome ==
  [][ /\ IsReserve(last')
           => /\ \/ last'.out \in {"confirmed", "waiting", "404"}
                 \/ collisions' # collisions
              /\ last'.train \in DOMAIN trains => last'.out # "404"
              /\ last'.train \notin DOMAIN trains
                   => /\ last'.out = "404"
                      /\ UNCHANGED <<durable, s_mirror, t_mirror>>
      /\ ( last'.op = "update_train" /\ last'.train \notin DOMAIN trains )
           => /\ last'.out = "404"
              /\ UNCHANGED <<durable, s_mirror, t_mirror>> ]_vars

\* ids of the waiting_list rows that a step removes
RemovedIds == { w.id : w \in waiting_list } \ { w.id : w \in waiting_list' }

\* C29: every promotion removes exactly one waiting_list row, the row of the
\* passenger it promotes; so no row, inserted once, is promoted twice, also
\* after a restart.  (Runs in which every generated pnr was new.)
C29_PromotionConsumesOneRow ==
  [][ ( IsRelease(last') /\ last'.out = "promoted" /\ collisions' = 0 )
      => \E w \in waiting_list :
           /\ RemovedIds = {w.id}
           /\ w.train_id = last'.train
           /\ bookings'[Len(bookings')].pax = w.pax ]_vars

\* the positions written on the entries of a queue, in queue order
ShownPositions(q) == [k \in 1..Len(q) |-> q[k].position]

\* C30: after a cancellation that promoted a passenger of a train, the
\* entries left in the front end's queue for the train carry the positions
\* 1..n-1 in order, the positions the renumbered waiting_list rows have, and
\* not the positions 2..n they had before.  (Runs in which every generated
\* pnr was new.)
C30_QueueShowsNewPositions ==
  [][ \A t \in DOMAIN trains :
        ( /\ IsRelease(last') /\ last'.train = t /\ last'.out = "promoted"
          /\ collisions' = 0 )
        => /\ ( last'.fe = "server" /\ t \in DOMAIN waiting_queues' )
              => \A k \in 1..Len(waiting_queues'[t]) :
                   ShownPositions(waiting_queues'[t])[k] = k
           /\ ( last'.fe = "terminal" /\ t \in DOMAIN t_waiting_queues' )
              => \A k \in 1..Len(t_waiting_queues'[t]) :
                   ShownPositions(t_waiting_queues'[t])[k] = k ]_vars

\* C22: inside a booking or a cancellation of the server, the list and the
\* queues change only after conn.commit(): every step of the request that
\* changes them comes after the commit.
C22_MirrorChangesAfterCommit ==
  [][ ( /\ s_call.op \in {"create_booking", "cancel_booking"}
        /\ crashes' = crashes
        /\ s_mirror' # s_mirror )
      => s_call.committed ]_vars

\* the server died before the commit of the request, or after it
DiedWhole ==
  \/ File' = s_call.pre
  \/ s_call.committed /\ File' = s_call.conn

\* C21: when the server dies inside a booking, a cancellation or a change of
\* total_seats, the tables hold either what they held when the request began
\* or what the complete request writes; and the list and queues loaded at
\* the restart hold the counters of the trains table and, for every train,
\* entries at positions 1..n without a gap, n being the number of its
\* waiting_list rows.
C21_CrashLeavesWholeStates ==
  [][ crashes' # crashes
      => /\ DiedWhole
         /\ \A t \in DOMAIN trains' :
              LET i == search(trains_linked_list', t)
                  q == waiting_queues'[t]
              IN /\ i # 0
                 /\ trains_linked_list'[i] = trains'[t]
                 /\ { q[k].position : k \in 1..Len(q) }
                      = 1..Cardinality(WaitRowsOf(t)') ]_vars

\* C31: a booking request for a train whose available_seats is above 0 ends
\* confirmed, adds exactly one confirmed booking of that train for the user
\* who asked, takes exactly 1 from available_seats and leaves the
\* waiting_list table as it was.
C31_ReserveWithSeatConfirms ==
  [][ \A t \in DOMAIN trains :
        ( /\ IsReserve(last') /\ last'.train = t
          /\ collisions' = collisions
          /\ trains[t].available_seats > 0 )
        => /\ last'.out = "confirmed"
           /\ t \in DOMAIN trains'
           /\ trains'[t].available_seats = trains[t].available_seats - 1
           /\ Len(bookings') = Len(bookings) + 1
           /\ SubSeq(bookings', 1, Len(bookings)) = bookings
           /\ LET b == bookings'[Len(bookings')] IN
              /\ b.train_id = t
              /\ b.booking_status = "confirmed"
              /\ \A u \in Passengers :
                   ( \/ create_booking(t, u, PaxOf(u))
                     \/ \E c \in 1..MaxTrains : t_book_ticket(c, u, PaxOf(u)) )
                   => b.user_id = u
           /\ waiting_list' = waiting_list ]_vars

\* request c is a booking on train t that found the train full
\* (available_seats = 0), and since its SELECT the other front end has
\* cancelled a booking of t: a seat was freed, or a booking of t was inserted
OvertakenByRelease(c, t) ==
  /\ c.op \in {"create_booking", "book_ticket"}
  /\ c.row.id = t
  /\ c.row.available_seats = 0
  /\ \/ trains[t].available_seats > 0
     \/ \E p \in (c.seen + 1)..Len(bookings) : bookings[p].train_id = t

\* request c is a cancellation of a confirmed booking of train t, and since
\* its SELECT the other front end has put a booking request for the full
\* train on the waiting list
OvertakenByReserve(c, t) ==
  /\ c.op \in {"cancel_booking", "cancel_ticket"}
  /\ c.row.train_id = t
  /\ c.row.booking_status = "confirmed"
  /\ trains[t].available_seats = 0
  /\ \E w \in WaitRowsOf(t) : w.id > c.seen

\* C32: when a booking and a cancellation on the same full train are handled
\* at the same time by the two front ends (no change of total_seats, every
\* generated pnr new), then once both have returned the train does not have
\* available_seats > 0 together with a waiting_list row.
C32_RacedReleaseLeavesNoIdleSeat ==
  [][ \A t \in DOMAIN trains :
        ( /\ adjusts = 0 /\ collisions' = 0
          /\ s_call' = NoCall /\ t_call' = NoCall
          /\ \/ OvertakenByRelease(s_call, t) \/ OvertakenByRelease(t_call, t)
             \/ OvertakenByReserve(s_call, t) \/ OvertakenByReserve(t_call, t) )
        => ~ ( /\ t \in DOMAIN trains'
               /\ trains'[t].available_seats > 0
               /\ \E w \in waiting_list' : w.train_id = t ) ]_vars

\* C33: every cancellation carried out on a train moves each of its
\* waiting_list rows one place forward: the row at position 1 is taken off the
\* list and a confirmed booking with its passenger is inserted, and a row at
\* position p > 1 stays on the list at position p - 1.  So a row at position
\* p is promoted by the p-th cancellation after it and by none before.
C33_PromotedByPthRelease ==
  [][ \A t \in DOMAIN trains :
        ( Released(last') /\ last'.train = t /\ collisions' = 0 )
        => \A w \in WaitRowsOf(t) :
             IF w.position = 1
             THEN /\ \A v \in waiting_list' : v.id # w.id
                  /\ last'.out = "promoted"
                  /\ Len(bookings') = Len(bookings) + 1
                  /\ bookings'[Len(bookings')].train_id = t
                  /\ bookings'[Len(bookings')].pax = w.pax
                  /\ bookings'[Len(bookings')].booking_status = "confirmed"
             ELSE \E v \in waiting_list' :
                    /\ v.id = w.id
                    /\ v.train_id = t
                    /\ v.position = w.position - 1 ]_vars

\* C34: a cancellation asked for by a user who is neither the user of the
\* booking nor the administrator is refused (403 by the server, 'not found
\* or not authorized' by the terminal), and the tables (so the status of the
\* booking, available_seats and the waiting list) and both front ends' lists
\* and queues are unchanged.
C34_ForeignReleaseRefused ==
  [][ /\ last'.op = "cancel_booking" =>
           \A p \in 1..Len(bookings), u \in Users :
             ( /\ bookings[p].user_id # u
               /\ role(u) # "admin"
               /\ cancel_booking(p, u) )
             => /\ last'.out = "403"
                /\ UNCHANGED <<durable, s_mirror, t_mirror>>
      /\ last'.op = "cancel_ticket" =>
           \A p \in 1..Len(bookings), u \in Users :
             ( /\ bookings[p].user_id # u
               /\ role(u) # "admin"
               /\ t_cancel_ticket(p, u) )
             => /\ last'.out = "not found"
                /\ UNCHANGED <<durable, s_mirror, t_mirror>> ]_vars

\* a user's cancellation of another user's confirmed booking has been
\* refused while a passenger was waiting for the train
C34_Witness ==
  /\ IsRelease(last)
  /\ last.out \in {"403", "not found"}
  /\ last.train \in DOMAIN trains
  /\ ConfirmedOf(last.train) # {}
  /\ WaitRowsOf(last.train) # {}

\* ---------------------------------------------------------------- two trains
\* The system with one train more than MaxTrains, the trains already in the
\* table (the administrator added the first with total_seats 1 and the
\* others with total_seats 0 or 1), both front
\* ends started after that and nothing booked yet.  Every generated pnr is
\* new (the collisions that may happen are used up), and neither process is
\* started again.
PairTrains == 1..(MaxTrains + 1)

PairInit ==
  /\ \E n \in [PairTrains -> 0..1] :
       /\ n[1] = 1
       /\ trains = [t \in PairTrains |-> TrainDict(t, n[t], n[t])]
  /\ train_seq = MaxTrains + 1
  /\ bookings = << >>
  /\ waiting_list = {}
  /\ wl_seq = 0
  /\ trains_linked_list = TrainRows(PairTrains)
  /\ waiting_queues = [t \in PairTrains |-> << >>]
  /\ t_running = TRUE
  /\ t_trains_list = TrainRows(PairTrains)
  /\ t_waiting_queues = [t \in PairTrains |-> << >>]
  /\ s_call = NoCall
  /\ t_call = NoCall
  /\ calls = 0
  /\ crashes = 0
  /\ starts = 0
  /\ adjusts = 0
  /\ collisions = MaxCollisions
  /\ last = Fail("init", "none", 0, "ok")

PairNext ==
  \/ \E t \in PairTrains, n \in SeatInputs : update_train(t, n, Admin)
  \/ \E t \in PairTrains : create_booking(t, HttpUser, PaxOf(HttpUser))
  \/ \E p \in 1..MaxBookings, u \in Users : cancel_booking(p, u)
  \/ \E c \in PairTrains : t_book_ticket(c, TerminalUser, PaxOf(TerminalUser))
  \/ \E p \in 1..MaxBookings, u \in Passengers : t_cancel_ticket(p, u)

PairSpec == PairInit /\ [][PairNext]_vars

\* what the tables, and a front end's list and queues, hold about the
\* trains other than r
OtherDurable(r) ==
  << [t \in DOMAIN trains \ {r} |-> trains[t]],
     { <<p, bookings[p]>> : p \in { q \in 1..Len(bookings) :
                                      bookings[q].train_id # r } },
     { w \in waiting_list : w.train_id # r } >>

OtherMirror(list, queues, r) ==
  << SelectSeq(list, LAMBDA d : d.id # r),
     [t \in DOMAIN queues \ {r} |-> queues[t]] >>

\* C35: a booking, a cancellation or a change of total_seats on one train
\* (whatever it returns, as long as the process lives on) leaves the trains
\* row, the bookings and the waiting_list rows with their positions of every
\* other train unchanged, and also what the server's and the terminal's list
\* and queues hold about every other train.
C35_OtherTrainsUntouched ==
  [][ \A r \in DOMAIN trains :
        ( /\ last'.train = r
          /\ \/ IsReserve(last') \/ IsRelease(last')
             \/ last'.op = "update_train"
          /\ last'.out # "crash" )
        => /\ OtherDurable(r)' = OtherDurable(r)
           /\ OtherMirror(trains_linked_list, waiting_queues, r)'
                = OtherMirror(trains_linked_list, waiting_queues, r)
           /\ OtherMirror(t_trains_list, t_waiting_queues, r)'
                = OtherMirror(t_trains_list, t_waiting_queues, r) ]_vars

\* a cancellation on one train has promoted a waiting passenger while
\* another train had a waiting passenger of its own
C35_Witness ==
  /\ IsRelease(last)
  /\ last.out = "promoted"
  /\ \E t \in DOMAIN trains \ {last.train} : WaitRowsOf(t) # {}

\* C36: a booking or a cancellation, whatever it returns (confirmed, waiting,
\* cancelled, promoted, refused), leaves total_seats of every train as it
\* was; total_seats of a train changes only in a PUT /api/trains/{id} on
\* that train that is carried out.
C36_TotalChangedOnlyByUpdate ==
  [][ \A t \in DOMAIN trains :
        /\ ( IsReserve(last') \/ IsRelease(last') )
           => /\ t \in DOMAIN trains'
              /\ trains'[t].total_seats = trains[t].total_seats
        /\ ( t \in DOMAIN trains'
             /\ trains'[t].total_seats # trains[t].total_seats )
           => /\ last'.op = "update_train"
              /\ last'.out = "ok"
              /\ last'.train = t ]_vars

\* a cancellation has promoted a waiting passenger of a train whose
\* total_seats had been changed before
C36_Witness ==
  /\ IsRelease(last)
  /\ last.out = "promoted"
  /\ last.train \in DOMAIN trains
  /\ adjusts > 0

\* ---------------------------------------------------------------- one sequence, two front ends
\* The same calls through the server and then through the terminal.  A train
\* with any total_seats is in the table and nothing is booked; the server
\* handles up to MaxCalls bookings and cancellations by passengers, and
\* s_call keeps the calls made.  Then the tables are put back as they were
\* at the start, the terminal is started on them and makes the same calls in
\* the same order.  Every generated pnr is new.
ReplayInit ==
  /\ \E n \in SeatInputs :
       /\ trains = [t \in {1} |-> TrainDict(1, n, n)]
       /\ s_call = [op |-> "replay", seats |-> n, log |-> << >>,
                    served |-> << >>, at |-> 0]
  /\ train_seq = 1
  /\ bookings = << >>
  /\ waiting_list = {}
  /\ wl_seq = 0
  /\ trains_linked_list = TrainRows({1})
  /\ waiting_queues = [t \in {1} |-> << >>]
  /\ t_running = FALSE
  /\ t_trains_list = << >>
  /\ t_waiting_queues = EmptyQueues
  /\ t_call = NoCall
  /\ calls = 0
  /\ crashes = 0
  /\ starts = 0
  /\ adjusts = 0
  /\ collisions = MaxCollisions
  /\ last = Fail("init", "none", 0, "ok")

\* what the claim compares: available_seats, the waiting list and the
\* confirmed bookings (user and seat) of the train
Observed ==
  << trains[1].available_seats,
     { <<w.user_id, w.pax, w.position>> : w \in WaitRowsOf(1) },
     { <<bookings[p].user_id, bookings[p].seat_number>> : p \in ConfirmedOf(1) } >>

Logged(call) ==
  /\ s_call.at = 0
  /\ calls < MaxCalls
  /\ calls' = calls + 1
  /\ s_call' = [s_call EXCEPT !.log = Append(@, call)]
  /\ UNCHANGED <<t_call, crashes>>

serve_reserve(u) ==
  /\ Logged([op |-> "reserve", u |-> u, pnr |-> 0])
  /\ create_booking_from(1, u, PaxOf(u), SelectTrain(1))

serve_release(pnr, u) ==
  /\ Logged([op |-> "release", u |-> u, pnr |-> pnr])
  /\ cancel_booking_from(pnr, u, SelectBooking(pnr))

\* the tables as they were at the start
rewind ==
  /\ s_call.at = 0
  /\ s_call.log # << >>
  /\ s_call' = [s_call EXCEPT !.served = Observed, !.at = 1]
  /\ trains' = [t \in {1} |-> TrainDict(1, s_call.seats, s_call.seats)]
  /\ bookings' = << >>
  /\ waiting_list' = {}
  /\ wl_seq' = 0
  /\ last' = Fail("rewind", "none", 0, "ok")
  /\ UNCHANGED <<train_seq, s_mirror, t_mirror, t_call, calls, crashes, budget>>

replay_load ==
  /\ s_call.at = 1
  /\ ~ t_running
  /\ t_load_data

Replayed(op) ==
  /\ t_running
  /\ s_call.at \in 1..Len(s_call.log)
  /\ s_call.log[s_call.at].op = op
  /\ s_call' = [s_call EXCEPT !.at = @ + 1]
  /\ UNCHANGED <<t_call, calls, crashes>>

replay_reserve ==
  /\ Replayed("reserve")
  /\ LET c == s_call.log[s_call.at] IN
     t_book_ticket_from(1, c.u, PaxOf(c.u), SelectTrain(Picked(1)))

replay_release ==
  /\ Replayed("release")
  /\ LET c == s_call.log[s_call.at] IN
     t_cancel_ticket_from(c.pnr, c.u, SelectOwnBooking(c.pnr, c.u))

ReplayNext ==
  \/ \E u \in Passengers : serve_reserve(u)
  \/ \E p \in 1..MaxBookings, u \in Passengers : serve_release(p, u)
  \/ rewind
  \/ replay_load
  \/ replay_reserve
  \/ replay_release

ReplaySpec == ReplayInit /\ [][ReplayNext]_vars

\* C37: when the terminal has made all the calls the server made on the same
\* tables, available_seats, the waiting list (users, passengers, positions)
\* and the confirmed bookings (user and seat of each) are what they were
\* after the server's calls.
C37_SameCallsSameTables ==
  ( s_call.op = "replay" /\ s_call.at > Len(s_call.log) )
    => Observed = s_call.served

\* ---------------------------------------------------------------- a Queue alone
\* One Queue object (kept as waiting_queues[1]) under any calls of enqueue,
\* dequeue and peek.  s_call keeps the items enqueued, the items dequeue has
\* returned, and what the last call returned.
QueueInit ==
  /\ trains = [t \in {} |-> TrainDict(0, 0, 0)]
  /\ train_seq = 0
  /\ bookings = << >>
  /\ waiting_list = {}
  /\ wl_seq = 0
  /\ trains_linked_list = << >>
  /\ waiting_queues = [t \in {1} |-> << >>]
  /\ t_running = FALSE
  /\ t_trains_list = << >>
  /\ t_waiting_queues = EmptyQueues
  /\ s_call = [op |-> "queue", enqueued |-> << >>, dequeued |-> << >>,
               returned |-> 0]
  /\ t_call = NoCall
  /\ calls = 0
  /\ crashes = 0
  /\ starts = 0
  /\ adjusts = 0
  /\ collisions = 0
  /\ last = Fail("init", "queue", 0, "ok")

QueueOnly ==
  UNCHANGED <<durable, trains_linked_list, t_mirror, t_call, calls, crashes,
              budget>>

q_enqueue(item) ==
  /\ Len(s_call.enqueued) < MaxEnqueues
  /\ waiting_queues' = [waiting_queues EXCEPT ![1] = enqueue(@, item)]
  /\ s_call' = [s_call EXCEPT !.enqueued = Append(@, item), !.returned = 0]
  /\ last' = Fail("enqueue", "queue", 0, "ok")
  /\ QueueOnly

q_dequeue ==
  /\ waiting_queues' = [waiting_queues EXCEPT ![1] = dequeue_rest(@)]
  /\ s_call' = [s_call EXCEPT
                  !.dequeued = IF is_empty(waiting_queues[1]) THEN @
                               ELSE Append(@, dequeue(waiting_queues[1])),
                  !.returned = dequeue(waiting_queues[1])]
  /\ last' = Fail("dequeue", "queue", 0, "ok")
  /\ QueueOnly

q_peek ==
  /\ s_call' = [s_call EXCEPT !.returned = peek(waiting_queues[1])]
  /\ last' = Fail("peek", "queue", 0, "ok")
  /\ UNCHANGED waiting_queues
  /\ QueueOnly

QueueNext ==
  \/ \E item \in 1..MaxItems : q_enqueue(item)
  \/ q_dequeue
  \/ q_peek

QueueSpec == QueueInit /\ [][QueueNext]_vars

\* C38: after every call on a Queue, the items dequeue has returned are, in
\* order, the first of the items enqueued, and size() is the number of
\* enqueue calls minus the number of dequeue calls that returned an item; a
\* dequeue or peek on an empty Queue returns None and leaves the Queue as it
\* was.
C38_QueueIsFifo ==
  [][ /\ s_call'.dequeued
           = SubSeq(s_call'.enqueued, 1, Len(s_call'.dequeued))
      /\ size(waiting_queues'[1])
           = Len(s_call'.enqueued) - Len(s_call'.dequeued)
      /\ ( last'.op \in {"dequeue", "peek"} /\ is_empty(waiting_queues[1]) )
         => /\ s_call'.returned = 0
            /\ waiting_queues' = waiting_queues
            /\ s_call'.dequeued = s_call.dequeued ]_vars

\* three different items went through the Queue, the last dequeue emptied
\* it, and a further dequeue returned None
C38_Witness ==
  /\ s_call.op = "queue"
  /\ Len(s_call.dequeued) >= 3
  /\ Cardinality({ s_call.dequeued[i] : i \in 1..Len(s_call.dequeued) }) >= 3
  /\ is_empty(waiting_queues[1])
  /\ last.op = "dequeue"
  /\ s_call.returned = 0
====
